---- MODULE Spec2Model ----
(***************************************************************************)
(* ferrous-socks: a SOCKS5 forward proxy.                                  *)
(*                                                                         *)
(* src/src/main.rs   the accept loop, the per-connection wrapper and the   *)
(*                   session worker (greeting, request, connect, reply,    *)
(*                   relay)                                                *)
(* src/src/stats.rs  the statistics registry (atomic counters, the id      *)
(*                   allocator, the map of live sessions, the snapshot)    *)
(*                                                                         *)
(* Three specifications share the state and the actions:                   *)
(*   Spec         one accepted connection, every client behaviour at the   *)
(*                byte level (every await of the worker is a step)         *)
(*   SpecWorkers  NumWorkers concurrent wrappers around the registry and a *)
(*                concurrent reader of the snapshot                        *)
(*   SpecStats    the registry's public operations called in any order     *)
(***************************************************************************)
EXTENDS Integers, Sequences, FiniteSets, TLC

\* ------------------------------------------------------------------ bounds

\* Number of connections the accept loop spawns a wrapper for.
NumWorkers == 2
\* Largest NMETHODS a client sends together with that many method bytes.
MaxMethods == 2
\* Longest list of addresses the resolver returns.
MaxResolved == 2
\* Number of snapshots the stats reader takes.
MaxSnapshots == 2
\* Number of calls a free caller of the registry makes (SpecStats).
MaxCalls == 3

Workers == 1 .. NumWorkers

\* ------------------------------------------------------------- data model

\* Option<T>: None is the empty sequence, Some(x) the sequence of x alone.
None == << >>

Some(x) == << x >>

IsSome(o) == Len(o) = 1

\* An AtomicU64 is kept as its residue nearest zero: k >= 0 is the value k,
\* k < 0 stands for 2^64 + k (what a fetch_sub below zero wraps to).  The
\* model's counts stay far inside 2^63, so the representation is exact.
fetch_add(v) == v + 1

fetch_sub(v) == v - 1

\* a < b as unsigned 64-bit values.
U64Less(a, b) ==
    \/ a >= 0 /\ b < 0
    \/ (a >= 0 <=> b >= 0) /\ a < b

\* IP addresses are their octets: 4 for IpAddr::V4, 16 for IpAddr::V6.
V4a == << 10, 0, 0, 1 >>

V4b == << 192, 0, 2, 5 >>

V6a == << 0, 0, 0, 0, 0, 0, 0, 0, 0, 0, 0, 0, 0, 0, 0, 1 >>

V4Addrs == { V4a, V4b }

V6Addrs == { V6a }

IpAddrs == V4Addrs \cup V6Addrs

IsV4(ip) == Len(ip) = 4

\* DST.PORT as it is on the wire (two octets): 80 and 443.
PortBufs == { << 0, 80 >>, << 1, 187 >> }

\* NetworkEndian::read_u16
read_u16(buf) == buf[1] * 256 + buf[2]

\* NetworkEndian::write_u16
write_u16(n) == << n \div 256, n % 256 >>

Ports == { read_u16(b) : b \in PortBufs }

SocketAddr(ip, port) == [ip |-> ip, port |-> port]

\* The local endpoints the OS gives an outbound socket (ip, port).
LocalEnds ==
    { SocketAddr(<< 192, 0, 2, 1 >>, 50000), SocketAddr(V6a, 443) }

\* Names a client sends in a domain request (ATYP 0x03), as bytes:
\* "a", "a:80", "e-acute:1", "a" 0xFF (not UTF-8), 0xC3 alone (a truncated
\* two-byte sequence, not UTF-8), and the empty name.
Names ==
    { << 97 >>, << 97, 58, 56, 48 >>, << 195, 169, 58, 49 >>,
      << 97, 255 >>, << 195 >>, << >> }

\* Sequences over S of length at most n.
RECURSIVE SeqsUpTo(_, _)
SeqsUpTo(S, n) ==
    IF n = 0 THEN { << >> }
    ELSE LET shorter == SeqsUpTo(S, n - 1)
         IN  shorter \cup { Append(q, x) : q \in shorter, x \in S }

SeqsOfLen(S, n) == { q \in SeqsUpTo(S, n) : Len(q) = n }

\* Authentication methods a client offers: NO AUTH and USERNAME/PASSWORD.
Methods == { 0, 2 }

\* The two bytes a client sends first: any version, and an NMETHODS it
\* then honours (0 .. MaxMethods) or the out-of-range 0xFF.
InitBufs == { << v, n >> : v \in { 4, 5 }, n \in (0 .. MaxMethods) \cup { 255 } }

\* The first four bytes of a request: VER, CMD (CONNECT, BIND), RSV, ATYP.
FixedBufs ==
    { << v, c, r, a >> :
        v \in { 4, 5 }, c \in { 1, 2 }, r \in { 0, 7 }, a \in { 1, 3, 4, 5 } }

\* ------------------------------------------------------ String::from_utf8

IsCont(b) == b >= 128 /\ b <= 191

\* Whether bytes s, read from position i on, are well-formed UTF-8
\* (String::from_utf8 returns Ok exactly then).
RECURSIVE Utf8From(_, _)
Utf8From(s, i) ==
    IF i > Len(s) THEN TRUE
    ELSE LET b == s[i]
             has(k) == i + k <= Len(s)
             c(k) == s[i + k]
         IN  IF b < 128 THEN Utf8From(s, i + 1)
             ELSE IF b >= 194 /\ b <= 223
                  THEN has(1) /\ IsCont(c(1)) /\ Utf8From(s, i + 2)
             ELSE IF b >= 224 /\ b <= 239
                  THEN /\ has(2)
                       /\ IsCont(c(1)) /\ IsCont(c(2))
                       /\ (b = 224 => c(1) >= 160)
                       /\ (b = 237 => c(1) <= 159)
                       /\ Utf8From(s, i + 3)
             ELSE IF b >= 240 /\ b <= 244
                  THEN /\ has(3)
                       /\ IsCont(c(1)) /\ IsCont(c(2)) /\ IsCont(c(3))
                       /\ (b = 240 => c(1) >= 144)
                       /\ (b = 244 => c(1) <= 143)
                       /\ Utf8From(s, i + 4)
             ELSE FALSE

from_utf8_ok(name) == Utf8From(name, 1)

\* ------------------------------------------------ tokio::net::lookup_host

\* Position of the last ':' of the name, 0 when there is none.
LastColon(name) ==
    LET at == { i \in 1 .. Len(name) : name[i] = 58 }
    IN  IF at = {} THEN 0 ELSE CHOOSE i \in at : \A j \in at : j <= i

RECURSIVE DecimalValue(_, _, _)
DecimalValue(s, i, acc) ==
    IF i > Len(s) \/ acc > 65535 THEN acc
    ELSE DecimalValue(s, i + 1, acc * 10 + (s[i] - 48))

\* lookup_host takes "host:port": a name without a ':' followed by a
\* decimal u16 is rejected before any resolution ("invalid socket
\* address", "invalid port value").
HasHostAndPort(name) ==
    LET k == LastColon(name)
        port_str == SubSeq(name, k + 1, Len(name))
    IN  /\ k > 0
        /\ Len(port_str) > 0
        /\ \A i \in 1 .. Len(port_str) : port_str[i] >= 48 /\ port_str[i] <= 57
        /\ DecimalValue(port_str, 1, 0) <= 65535

\* What the resolver may answer for a name it accepts: addresses in its
\* order (possibly none).
Resolutions == SeqsUpTo(IpAddrs, MaxResolved)

\* ------------------------------------------------------------------ Config

AllPairs == IpAddrs \X Ports

\* Access policies a configuration may hold, each as the set of permitted
\* (ip, port): everything; everything outside 10.0.0.1; two single pairs.
Policies ==
    { AllPairs,
      { p \in AllPairs : p[1] # V4a },
      { << V4b, 80 >>, << V6a, 443 >> } }

\* ------------------------------------------------------------ Reply codec

Replies ==
    { "SocksFailure", "ConnectionNotAllowed", "NetworkUnreachable",
      "ConnectionRefused", "TtlExpired", "CommandNotSupported",
      "AddressNotSupported" }

as_u8(reply) ==
    CASE reply = "SocksFailure" -> 1
      [] reply = "ConnectionNotAllowed" -> 2
      [] reply = "NetworkUnreachable" -> 3
      [] reply = "ConnectionRefused" -> 4
      [] reply = "TtlExpired" -> 5
      [] reply = "CommandNotSupported" -> 7
      [] reply = "AddressNotSupported" -> 8

\* write_error with the address type of a domain name.
write_error_m(reply) == << 5, as_u8(reply), 0, 3, 0, 0, 0, 0, 0, 0 >>

\* The bytes Reply::write_error writes.
write_error(reply) == << 5, as_u8(reply), 0, 1, 0, 0, 0, 0, 0, 0 >>

\* The first write of the success reply: VER, REP, the third byte, ATYP.
success_head(local_end) ==
    << 5, 0, 1, IF IsV4(local_end.ip) THEN 1 ELSE 4 >>

\* ------------------------------------------------------------------ state

VARIABLES
    main,             \* where main is: in its accept loop, or returned
    config,           \* the access policy: the set of permitted (ip, port)
    worker,           \* per connection: the wrapper's and the worker's locals
    in_flight,        \* Stats.in_flight
    next_request_id,  \* Stats.next_request_id
    sessions,         \* Stats.sessions: id -> Session
    counters,         \* Stats.handshake_failed .. Stats.session_timeout
    readers,          \* read leases held on the lock of Stats.sessions
    snap,             \* the caller of serialize_to_vec
    issued,           \* the ids start_request returned, in allocation order
    calls             \* calls made by the free caller (SpecStats)

vars ==
    << main, config, worker, in_flight, next_request_id, sessions, counters,
       readers, snap, issued, calls >>

CounterNames ==
    { "handshake_failed", "handshake_success", "handshake_authenticated",
      "handshake_timeout", "session_success", "session_timeout" }

\* A task that has not been spawned; also the locals of a worker that
\* dropped them.
W0 ==
    [ pc |-> "idle",
      conn_id |-> 0,
      init_buf |-> << >>,
      auths |-> << >>,
      fixed_buf |-> << >>,
      len_buf |-> << >>,
      address |-> None,
      request |-> None,
      target |-> None,
      addrs |-> None,
      outcome |-> "none",
      reply |-> None,
      conn |-> None,
      up |-> "none",
      down |-> "none",
      shutdown |-> {},
      sent |-> << >>,
      connects |-> << >>,
      result |-> "none" ]

S0 == [ pc |-> "idle", buf |-> None, out |-> None, taken |-> 0 ]

\* Stats::new
Init ==
    /\ main = "accepting"
    /\ config \in Policies
    /\ worker = [w \in Workers |-> W0]
    /\ in_flight = 0
    /\ next_request_id = 1
    /\ sessions = << >>
    /\ counters = [c \in CounterNames |-> 0]
    /\ readers = 0
    /\ snap = S0
    /\ issued = << >>
    /\ calls = 0

\* The peer address accept returns for connection w.
PeerOf(w) == SocketAddr(<< 127, 0, 0, 1 >>, 40000 + w)

\* Session::new
Session(source_address) == [source_address |-> source_address, request |-> None]

\* HashMap::insert
insert(map, k, v) == [i \in DOMAIN map \cup { k } |-> IF i = k THEN v ELSE map[i]]

\* remove that leaves the entry in the map.
remove_m(map, k) == map

\* HashMap::remove
remove(map, k) == [i \in DOMAIN map \ { k } |-> map[i]]

Set(w, fields) == worker' = [worker EXCEPT ![w] = fields]

\* ------------------------------------------------------------------ Stats

\* Stats::start_request, first statement: in_flight.fetch_add(1).
StartInc(w) ==
    /\ worker[w].pc = "start_inc"
    /\ in_flight' = fetch_add(in_flight)
    /\ Set(w, [worker[w] EXCEPT !.pc = "start_alloc"])
    /\ UNCHANGED << main, config, next_request_id, sessions, counters, readers, snap,
                    issued, calls >>

\* StartAlloc that takes the id and leaves the allocator where it is.
StartAlloc_m(w) ==
    /\ worker[w].pc = "start_alloc"
    /\ next_request_id' = next_request_id
    /\ issued' = Append(issued, next_request_id)
    /\ Set(w, [worker[w] EXCEPT !.pc = "start_insert", !.conn_id = next_request_id])
    /\ UNCHANGED << main, config, in_flight, sessions, counters, readers, snap, calls >>

\* Second statement: conn_id = next_request_id.fetch_add(1).
StartAlloc(w) ==
    /\ worker[w].pc = "start_alloc"
    /\ next_request_id' = fetch_add(next_request_id)
    /\ issued' = Append(issued, next_request_id)
    /\ Set(w, [worker[w] EXCEPT !.pc = "start_insert", !.conn_id = next_request_id])
    /\ UNCHANGED << main, config, in_flight, sessions, counters, readers, snap, calls >>

\* The write lease on sessions, the insert, and the return to the caller
\* (which goes on at `next`).  The lease is granted only when no read lease
\* is held, and is given back before anything else runs.
StartInsert(w, next) ==
    /\ worker[w].pc = "start_insert"
    /\ readers = 0
    /\ sessions' = insert(sessions, worker[w].conn_id, Session(PeerOf(w)))
    /\ Set(w, [worker[w] EXCEPT !.pc = next])
    /\ UNCHANGED << main, config, in_flight, next_request_id, counters, readers, snap,
                    issued, calls >>

\* Stats::finish_request, first statement: in_flight.fetch_sub(1).
FinishDec(w) ==
    /\ worker[w].pc = "fin_dec"
    /\ in_flight' = fetch_sub(in_flight)
    /\ Set(w, [worker[w] EXCEPT !.pc = "fin_remove"])
    /\ UNCHANGED << main, config, next_request_id, sessions, counters, readers, snap,
                    issued, calls >>

\* The write lease, the removal, and the return to the caller.
FinishRemove(w, next) ==
    /\ worker[w].pc = "fin_remove"
    /\ readers = 0
    /\ sessions' = remove(sessions, worker[w].conn_id)
    /\ Set(w, [worker[w] EXCEPT !.pc = next])
    /\ UNCHANGED << main, config, in_flight, next_request_id, counters, readers, snap,
                    issued, calls >>

\* Bump with fetch_sub in place of fetch_add.
Bump_m(c) ==
    /\ counters' = [counters EXCEPT ![c] = fetch_sub(@)]
    /\ UNCHANGED << main, config, worker, in_flight, next_request_id, sessions, readers,
                    snap, issued >>

\* Stats::handshake_failed .. Stats::session_timeout: one fetch_add(1).
Bump(c) ==
    /\ counters' = [counters EXCEPT ![c] = fetch_add(@)]
    /\ UNCHANGED << main, config, worker, in_flight, next_request_id, sessions, readers,
                    snap, issued >>

\* Stats::set_request under the write lease.
SetRequest(id, request) ==
    /\ readers = 0
    /\ sessions' =
           IF id \in DOMAIN sessions
           THEN [sessions EXCEPT ![id].request = Some(request)]
           ELSE sessions
    /\ UNCHANGED << main, config, worker, in_flight, next_request_id, counters, readers,
                    snap, issued >>

\* DumpFields with in_flight taken from the session_timeout counter.
DumpFields_m ==
    << "handshake_failed", "handshake_success", "handshake_timeout",
       "session_success", "session_timeout", "session_timeout" >>

\* The fields of DumpableStats in the order serialize_to_vec loads them.
DumpFields ==
    << "handshake_failed", "handshake_success", "handshake_timeout",
       "session_success", "session_timeout", "in_flight" >>

\* Stats::serialize_to_vec: the read lease.
SnapLock ==
    /\ snap.pc = "idle"
    /\ snap.taken < MaxSnapshots
    /\ readers' = readers + 1
    /\ snap' = [snap EXCEPT !.pc = "load", !.buf = << >>]
    /\ UNCHANGED << main, config, worker, in_flight, next_request_id, sessions, counters,
                    issued, calls >>

\* One atomic load, of the next field of DumpableStats.
SnapLoad ==
    /\ snap.pc = "load"
    /\ Len(snap.buf) < Len(DumpFields)
    /\ LET f == DumpFields[Len(snap.buf) + 1]
           v == IF f = "in_flight" THEN in_flight ELSE counters[f]
       IN  snap' = [snap EXCEPT !.buf = Append(@, v)]
    /\ UNCHANGED << main, config, worker, in_flight, next_request_id, sessions, counters,
                    readers, issued, calls >>

\* serde_json::to_vec of the loaded counters and the map behind the lease,
\* then the lease is dropped.
SnapSerialize ==
    /\ snap.pc = "load"
    /\ Len(snap.buf) = Len(DumpFields)
    /\ snap' =
           [ pc |-> "idle",
             buf |-> None,
             out |-> Some([in_flight |-> snap.buf[6],
                           counters |-> SubSeq(snap.buf, 1, 5),
                           sessions |-> sessions]),
             taken |-> snap.taken + 1 ]
    /\ readers' = readers - 1
    /\ UNCHANGED << main, config, worker, in_flight, next_request_id, sessions, counters,
                    issued, calls >>

\* ------------------------------------------------- the accept loop (main)

\* accept returns a connection and main spawns its wrapper; tasks are taken
\* in order.
Accept(w) ==
    /\ main = "accepting"
    /\ worker[w].pc = "idle"
    /\ \A v \in Workers : v < w => worker[v].pc # "idle"
    /\ Set(w, [worker[w] EXCEPT !.pc = "start_inc"])
    /\ UNCHANGED << main, config, in_flight, next_request_id, sessions, counters,
                    readers, snap, issued, calls >>

\* accept returns an error: `listener.accept().await?` returns it from main,
\* which leaves the loop; the tasks spawned so far may still take steps
\* until the runtime is dropped.
AcceptError ==
    /\ main = "accepting"
    /\ main' = "returned"
    /\ UNCHANGED << config, worker, in_flight, next_request_id, sessions,
                    counters, readers, snap, issued, calls >>

\* ------------------------------------------- the session worker (main.rs)

statsVars ==
    << main, config, in_flight, next_request_id, sessions, counters, readers, snap,
       issued, calls >>

\* What outlives the worker's locals: the wrapper's conn_id, and what the
\* peers saw of the session (the writes to the client, the connects).
Kept(w) ==
    [W0 EXCEPT !.conn_id = worker[w].conn_id,
               !.sent = worker[w].sent,
               !.connects = worker[w].connects]

\* handle_one_connection returns (or the outer timeout drops it): its
\* locals and sockets are dropped, the wrapper goes on to finish_request.
Return(w, written, res) ==
    Set(w, [Kept(w) EXCEPT !.pc = "fin_dec",
                           !.sent = worker[w].sent \o written,
                           !.result = res])

\* The task panics: it unwinds through the wrapper and is dropped by the
\* runtime; nothing after the panic runs.
Panic(w) == Set(w, [Kept(w) EXCEPT !.pc = "panicked", !.result = "panic"])

Go(w, pc) == Set(w, [worker[w] EXCEPT !.pc = pc])

\* handshake_auth: read_exact(init_buf).
HsReadInit(w) ==
    /\ worker[w].pc = "hs_init"
    /\ \E b \in InitBufs : Set(w, [worker[w] EXCEPT !.pc = "hs_ver", !.init_buf = b])
    /\ UNCHANGED statsVars

\* handshake_auth: the version and NMETHODS checks, then either the
\* refusal or read_exact(auths).
HsVersion(w) ==
    LET init_buf == worker[w].init_buf
    IN  /\ worker[w].pc = "hs_ver"
        /\ IF init_buf[1] # 5
           THEN Return(w, << << 5, 255 >> >>, "false")
           ELSE IF init_buf[2] > 254
           THEN Return(w, << << 5, 255 >> >>, "false")
           ELSE \E a \in SeqsOfLen(Methods, init_buf[2]) :
                    Set(w, [worker[w] EXCEPT !.pc = "hs_auths", !.auths = a])
        /\ UNCHANGED statsVars

\* HsSelect with `all` in place of `any`.
HsSelect_m(w) ==
    LET auths == worker[w].auths
    IN  /\ worker[w].pc = "hs_auths"
        /\ IF \A i \in 1 .. Len(auths) : auths[i] = 0
           THEN Set(w, [worker[w] EXCEPT !.pc = "rq_fixed",
                                         !.init_buf = << >>,
                                         !.auths = << >>,
                                         !.sent = Append(@, << 5, 0 >>)])
           ELSE Return(w, << << 5, 255 >> >>, "false")
        /\ UNCHANGED statsVars

\* handshake_auth: the method selection and its reply.
HsSelect(w) ==
    LET auths == worker[w].auths
    IN  /\ worker[w].pc = "hs_auths"
        /\ IF \E i \in 1 .. Len(auths) : auths[i] = 0
           THEN Set(w, [worker[w] EXCEPT !.pc = "rq_fixed",
                                         !.init_buf = << >>,
                                         !.auths = << >>,
                                         !.sent = Append(@, << 5, 0 >>)])
           ELSE Return(w, << << 5, 255 >> >>, "false")
        /\ UNCHANGED statsVars

\* read_request: read_exact(fixed_buf).
RqReadFixed(w) ==
    /\ worker[w].pc = "rq_fixed"
    /\ \E b \in FixedBufs : Set(w, [worker[w] EXCEPT !.pc = "rq_atyp", !.fixed_buf = b])
    /\ UNCHANGED statsVars

Ip(octets) == [tag |-> "ip", v |-> octets]

DomainName(name) == [tag |-> "domain", v |-> name]

\* RqDispatch with the command checked before the version.
RqDispatch_m(w) ==
    LET ver == worker[w].fixed_buf[1]
        cmd == worker[w].fixed_buf[2]
        atyp == worker[w].fixed_buf[4]
    IN  /\ worker[w].pc = "rq_atyp"
        /\ IF cmd # 1
           THEN Return(w, << write_error("CommandNotSupported") >>, "false")
           ELSE IF ver # 5
           THEN Return(w, << write_error("SocksFailure") >>, "false")
           ELSE CASE atyp = 1 ->
                       \E ip \in V4Addrs :
                           Set(w, [worker[w] EXCEPT !.pc = "rq_port",
                                                    !.address = Some(Ip(ip))])
                  [] atyp = 3 ->
                       \E n \in Names :
                           Set(w, [worker[w] EXCEPT !.pc = "rq_name",
                                                    !.len_buf = << Len(n) >>])
                  [] atyp = 4 ->
                       \E ip \in V6Addrs :
                           Set(w, [worker[w] EXCEPT !.pc = "rq_port",
                                                    !.address = Some(Ip(ip))])
                  [] OTHER -> Return(w, << >>, "err")
        /\ UNCHANGED statsVars

\* read_request: the version and command checks, then the match on ATYP up
\* to its first read.
RqDispatch(w) ==
    LET ver == worker[w].fixed_buf[1]
        cmd == worker[w].fixed_buf[2]
        atyp == worker[w].fixed_buf[4]
    IN  /\ worker[w].pc = "rq_atyp"
        /\ IF ver # 5
           THEN Return(w, << write_error("SocksFailure") >>, "false")
           ELSE IF cmd # 1
           THEN Return(w, << write_error("CommandNotSupported") >>, "false")
           ELSE CASE atyp = 1 ->
                       \E ip \in V4Addrs :
                           Set(w, [worker[w] EXCEPT !.pc = "rq_port",
                                                    !.address = Some(Ip(ip))])
                  [] atyp = 3 ->
                       \E n \in Names :
                           Set(w, [worker[w] EXCEPT !.pc = "rq_name",
                                                    !.len_buf = << Len(n) >>])
                  [] atyp = 4 ->
                       \E ip \in V6Addrs :
                           Set(w, [worker[w] EXCEPT !.pc = "rq_port",
                                                    !.address = Some(Ip(ip))])
                  [] OTHER -> Return(w, << >>, "err")
        /\ UNCHANGED statsVars

\* read_request: read_exact(name), then String::from_utf8(name).unwrap().
RqReadName(w) ==
    /\ worker[w].pc = "rq_name"
    /\ \E name \in Names :
           /\ Len(name) = worker[w].len_buf[1]
           /\ IF from_utf8_ok(name)
              THEN Set(w, [worker[w] EXCEPT !.pc = "rq_port",
                                            !.address = Some(DomainName(name))])
              ELSE Panic(w)
    /\ UNCHANGED statsVars

\* read_request: read_exact(port_buf) and the Request it returns.
RqReadPort(w) ==
    /\ worker[w].pc = "rq_port"
    /\ \E port_buf \in PortBufs :
           Set(w, [worker[w] EXCEPT
                      !.pc = "connect",
                      !.fixed_buf = << >>,
                      !.len_buf = << >>,
                      !.address = None,
                      !.request = Some([address |-> worker[w].address[1],
                                        dport |-> read_u16(port_buf)])])
    /\ UNCHANGED statsVars

\* Config::is_permitted
is_permitted(ip, port) == << ip, port >> \in config

\* first_permitted without the policy check: the first resolved address.
first_permitted_m(addrs, dport) ==
    IF addrs = << >> THEN None ELSE Some(SocketAddr(Head(addrs), dport))

\* The loop of Request::connect over the resolved addresses: the first
\* address the policy permits, with the request's port.
RECURSIVE first_permitted(_, _)
first_permitted(addrs, dport) ==
    IF addrs = << >> THEN None
    ELSE IF is_permitted(Head(addrs), dport)
    THEN Some(SocketAddr(Head(addrs), dport))
    ELSE first_permitted(Tail(addrs), dport)

\* reply_for with the replies of a connect error and of the elapsed
\* deadline exchanged.
reply_for_m(outcome) ==
    CASE outcome = "none" -> "ConnectionNotAllowed"
      [] outcome = "err" -> "TtlExpired"
      [] outcome = "elapsed" -> "NetworkUnreachable"

\* The match of handle_one_connection on what the timeout around
\* Request::connect gave: Ok(Ok(None)), Ok(Err(_)), Err(elapsed).
reply_for(outcome) ==
    CASE outcome = "none" -> "ConnectionNotAllowed"
      [] outcome = "err" -> "NetworkUnreachable"
      [] outcome = "elapsed" -> "TtlExpired"

\* Request::connect leaves with Ok(None) ("none") or an error ("err"), or
\* the 3000 ms timeout drops it ("elapsed"): the worker goes on to write
\* the failure reply of that arm.
Fail(w, outcome) ==
    Set(w, [worker[w] EXCEPT !.pc = "reply_err", !.target = None,
                             !.outcome = outcome,
                             !.reply = Some(reply_for(outcome))])

\* Request::connect starts TcpStream::connect to the address.
Dial(w, addr) ==
    Set(w, [worker[w] EXCEPT !.pc = "cn_wait", !.target = Some(addr),
                             !.connects = Append(@, addr)])

IsDomain(w) == worker[w].request[1].address.tag = "domain"

\* Request::connect, Address::IpAddr.
ConnectIp(w) ==
    LET request == worker[w].request[1]
    IN  /\ worker[w].pc = "connect"
        /\ ~IsDomain(w)
        /\ IF is_permitted(request.address.v, request.dport)
           THEN Dial(w, SocketAddr(request.address.v, request.dport))
           ELSE Fail(w, "none")
        /\ UNCHANGED statsVars

\* Request::connect, Address::DomainName: lookup_host(d.as_str()).await?
\* gives an error or the addresses the name resolves to, in order.
ConnectLookup(w) ==
    LET request == worker[w].request[1]
    IN  /\ worker[w].pc = "connect"
        /\ IsDomain(w)
        /\ IF ~HasHostAndPort(request.address.v)
           THEN Fail(w, "err")
           ELSE \/ Fail(w, "err")
                \/ \E addrs \in Resolutions :
                       Set(w, [worker[w] EXCEPT !.pc = "cn_loop",
                                                !.addrs = Some(addrs)])
        /\ UNCHANGED statsVars

\* ConnectLoop dialling the last permitted address instead of the first.
ConnectLoop_m(w) ==
    LET request == worker[w].request[1]
        addrs == worker[w].addrs[1]
        permitted == { i \in 1 .. Len(addrs) : is_permitted(addrs[i], request.dport) }
    IN  /\ worker[w].pc = "cn_loop"
        /\ IF permitted # {}
           THEN Dial(w, SocketAddr(addrs[CHOOSE i \in permitted :
                                             \A j \in permitted : j <= i],
                                   request.dport))
           ELSE Fail(w, "none")
        /\ UNCHANGED statsVars

\* Request::connect, Address::DomainName: the loop over the addresses.
ConnectLoop(w) ==
    LET request == worker[w].request[1]
        first == first_permitted(worker[w].addrs[1], request.dport)
    IN  /\ worker[w].pc = "cn_loop"
        /\ IF IsSome(first)
           THEN Dial(w, first[1])
           ELSE Fail(w, "none")
        /\ UNCHANGED statsVars

\* TcpStream::connect succeeds; the socket's local end has the family of
\* the address connected to.
ConnectOk(w) ==
    /\ worker[w].pc = "cn_wait"
    /\ \E local_end \in LocalEnds :
           /\ IsV4(local_end.ip) <=> IsV4(worker[w].target[1].ip)
           /\ Set(w, [worker[w] EXCEPT !.pc = "rp_head", !.target = None,
                                       !.addrs = None,
                                       !.conn = Some(local_end)])
    /\ UNCHANGED statsVars

\* TcpStream::connect fails.
ConnectErr(w) ==
    /\ worker[w].pc = "cn_wait"
    /\ Fail(w, "err")
    /\ UNCHANGED statsVars

\* The 3000 ms timeout fires while Request::connect awaits the resolver or
\* the connect.
ConnectTimeout(w) ==
    /\ \/ worker[w].pc = "cn_wait"
       \/ worker[w].pc = "connect" /\ IsDomain(w)
    /\ Fail(w, "elapsed")
    /\ UNCHANGED statsVars

\* ReplyErr going on to the relay after it wrote the failure reply.
ReplyErr_m(w) ==
    /\ worker[w].pc = "reply_err"
    /\ Set(w, [worker[w] EXCEPT !.pc = "relay",
                                !.sent = Append(@, write_error(worker[w].reply[1])),
                                !.up = "copy",
                                !.down = "copy"])
    /\ UNCHANGED statsVars

\* handle_one_connection: the failure reply of the connect phase.
ReplyErr(w) ==
    /\ worker[w].pc = "reply_err"
    /\ Return(w, << write_error(worker[w].reply[1]) >>, "false")
    /\ UNCHANGED statsVars

\* handle_one_connection: local_addr() and the first write of the success
\* reply.
RpHead(w) ==
    /\ worker[w].pc = "rp_head"
    /\ Set(w, [worker[w] EXCEPT !.pc = "rp_addr",
                                !.sent = Append(@, success_head(worker[w].conn[1]))])
    /\ UNCHANGED statsVars

\* The second write: the octets of the local end's address.
RpAddr(w) ==
    /\ worker[w].pc = "rp_addr"
    /\ Set(w, [worker[w] EXCEPT !.pc = "rp_port",
                                !.sent = Append(@, worker[w].conn[1].ip)])
    /\ UNCHANGED statsVars

\* The third write: the local end's port; then both sockets are split and
\* the two copies start.
RpPort(w) ==
    /\ worker[w].pc = "rp_port"
    /\ Set(w, [worker[w] EXCEPT !.pc = "relay",
                                !.sent = Append(@, write_u16(worker[w].conn[1].port)),
                                !.up = "copy",
                                !.down = "copy"])
    /\ UNCHANGED statsVars

\* copy_then_shutdown(socket_r, conn_w): the copy ends at EOF and the write
\* side of the destination is shut down, or the copy or the shutdown fails.
RelayUp(w) ==
    /\ worker[w].pc = "relay"
    /\ worker[w].up = "copy"
    /\ \/ Set(w, [worker[w] EXCEPT !.up = "ok", !.shutdown = @ \cup { "conn" }])
       \/ Set(w, [worker[w] EXCEPT !.up = "err"])
    /\ UNCHANGED statsVars

\* copy_then_shutdown(conn_r, socket_w).
RelayDown(w) ==
    /\ worker[w].pc = "relay"
    /\ worker[w].down = "copy"
    /\ \/ Set(w, [worker[w] EXCEPT !.down = "ok", !.shutdown = @ \cup { "socket" }])
       \/ Set(w, [worker[w] EXCEPT !.down = "err"])
    /\ UNCHANGED statsVars

\* RelayJoin returning as soon as one direction has ended.
RelayJoin_m(w) ==
    /\ worker[w].pc = "relay"
    /\ worker[w].up # "copy" \/ worker[w].down # "copy"
    /\ Return(w, << >>, IF worker[w].up = "ok" /\ worker[w].down = "ok"
                        THEN "true" ELSE "err")
    /\ UNCHANGED statsVars

\* join! returns once both copies have ended; first?, second?, Ok(true).
RelayJoin(w) ==
    /\ worker[w].pc = "relay"
    /\ worker[w].up # "copy"
    /\ worker[w].down # "copy"
    /\ Return(w, << >>,
              IF worker[w].up = "ok" /\ worker[w].down = "ok" THEN "true" ELSE "err")
    /\ UNCHANGED statsVars

\* Where the worker's next operation is a read or a write of the client
\* socket whose error `?` returns.
IoPcs ==
    { "hs_init", "hs_ver", "hs_auths", "rq_fixed", "rq_atyp", "rq_name",
      "rq_port", "reply_err", "rp_head", "rp_addr", "rp_port" }

\* Where the worker is suspended inside handle_one_connection.
HandlerPcs == IoPcs \cup { "cn_wait", "relay" }

\* A read or write of the client socket fails.
IoError(w) ==
    /\ worker[w].pc \in IoPcs
    /\ Return(w, << >>, "err")
    /\ UNCHANGED statsVars

\* The wrapper's timeout fires and drops the worker where it is suspended.
SessionTimeout(w) ==
    /\ \/ worker[w].pc \in HandlerPcs
       \/ worker[w].pc = "connect" /\ IsDomain(w)
    /\ Return(w, << >>, "timeout")
    /\ UNCHANGED statsVars

\* handle_one_connection seen from the wrapper, whose match treats every
\* way of coming back alike: it comes back (Ok, Err, or dropped by the
\* timeout), or it panics.
HandleOneConnection(w) ==
    /\ worker[w].pc = "hs_init"
    /\ \/ Return(w, << >>, "false")
       \/ Panic(w)
    /\ UNCHANGED statsVars

\* ---------------------------------------------------------- specifications

Wrapper(w) ==
    \/ StartInc(w)
    \/ StartAlloc(w)
    \/ StartInsert(w, "hs_init")
    \/ FinishDec(w)
    \/ FinishRemove(w, "done")

Handler(w) ==
    \/ HsReadInit(w)
    \/ HsVersion(w)
    \/ HsSelect(w)
    \/ RqReadFixed(w)
    \/ RqDispatch(w)
    \/ RqReadName(w)
    \/ RqReadPort(w)
    \/ ConnectIp(w)
    \/ ConnectLookup(w)
    \/ ConnectLoop(w)
    \/ ConnectOk(w)
    \/ ConnectErr(w)
    \/ ConnectTimeout(w)
    \/ ReplyErr(w)
    \/ RpHead(w)
    \/ RpAddr(w)
    \/ RpPort(w)
    \/ RelayUp(w)
    \/ RelayDown(w)
    \/ RelayJoin(w)
    \/ IoError(w)
    \/ SessionTimeout(w)

\* One connection, every client behaviour.
Next ==
    \/ Accept(1)
    \/ AcceptError
    \/ Wrapper(1)
    \/ Handler(1)

Spec == Init /\ [][Next]_vars

\* NumWorkers connections and a reader of the snapshot.
NextWorkers ==
    \/ \E w \in Workers : Accept(w) \/ Wrapper(w) \/ HandleOneConnection(w)
    \/ SnapLock
    \/ SnapLoad
    \/ SnapSerialize

\* The wrappers never read the policy.
InitWorkers == Init /\ config = AllPairs

SpecWorkers == InitWorkers /\ [][NextWorkers]_vars

\* The registry's public operations, called in any order and with any
\* argument by up to MaxCalls calls from NumWorkers threads.
CallStart(w) ==
    /\ calls < MaxCalls
    /\ worker[w].pc = "idle"
    /\ Go(w, "start_inc")
    /\ calls' = calls + 1
    /\ UNCHANGED << main, config, in_flight, next_request_id, sessions, counters,
                    readers, snap, issued >>

CallFinish(w) ==
    /\ calls < MaxCalls
    /\ worker[w].pc = "idle"
    /\ \E request_id \in 1 .. MaxCalls :
           Set(w, [worker[w] EXCEPT !.pc = "fin_dec", !.conn_id = request_id])
    /\ calls' = calls + 1
    /\ UNCHANGED << main, config, in_flight, next_request_id, sessions, counters,
                    readers, snap, issued >>

CallBump ==
    /\ calls < MaxCalls
    /\ \E c \in CounterNames : Bump(c)
    /\ calls' = calls + 1

\* Requests a caller records with set_request.
SetRequests ==
    { [address |-> Ip(V4a), dport |-> 80],
      [address |-> DomainName(<< 97 >>), dport |-> 443] }

CallSetRequest ==
    /\ calls < MaxCalls
    /\ \E id \in 1 .. MaxCalls, request \in SetRequests : SetRequest(id, request)
    /\ calls' = calls + 1

NextStats ==
    \/ \E w \in Workers :
           \/ CallStart(w)
           \/ StartInc(w)
           \/ StartAlloc(w)
           \/ StartInsert(w, "idle")
           \/ CallFinish(w)
           \/ FinishDec(w)
           \/ FinishRemove(w, "idle")
    \/ CallBump
    \/ CallSetRequest

SpecStats == InitWorkers /\ [][NextStats]_vars

\* ------------------------------------------------------------ properties

\* C1: a connect is attempted only to an (ip, port) the policy permits, the
\* port being the request's; an IPv4/IPv6 request the policy denies leads to
\* no connect and to the ConnectionNotAllowed reply.
C1_ConnectOnlyPermitted ==
    \A w \in Workers :
        LET a == worker[w]
        IN  /\ \A i \in 1 .. Len(a.connects) :
                   << a.connects[i].ip, a.connects[i].port >> \in config
            /\ IsSome(a.request) =>
                   /\ \A i \in 1 .. Len(a.connects) :
                          a.connects[i].port = a.request[1].dport
                   /\ ( /\ a.request[1].address.tag = "ip"
                        /\ << a.request[1].address.v, a.request[1].dport >> \notin config )
                      => /\ a.connects = << >>
                         /\ a.pc \in { "connect", "reply_err" }
                         /\ a.pc = "reply_err" => a.reply = Some("ConnectionNotAllowed")

\* A connect is under way for a domain request under a policy that denies
\* some addresses.
C1_Witness ==
    \E w \in Workers :
        /\ worker[w].pc = "cn_wait"
        /\ IsDomain(w)
        /\ Len(worker[w].connects) = 1
        /\ config # AllPairs

\* What HsVersion and HsSelect decide on: the version is 5, NMETHODS is at
\* most 0xFE and a method read is 0x00.
GreetingAccepted(a) ==
    /\ a.init_buf[1] = 5
    /\ a.init_buf[2] <= 254
    /\ \E i \in 1 .. Len(a.auths) : a.auths[i] = 0

HandshakePcs == { "hs_init", "hs_ver", "hs_auths" }

\* C2: when handshake_auth ends (no I/O error, no timeout) it has written
\* exactly one reply of two bytes: 05 00, and the worker goes on to read the
\* request, iff the version is 5, NMETHODS <= 0xFE and a method is 0x00;
\* otherwise 05 FF, and the session ends with no request read and no connect.
C2_GreetingReply ==
    [][ \A w \in Workers :
          LET a == worker[w]
              b == worker'[w]
          IN  ( /\ a.pc \in HandshakePcs
                /\ b.pc \notin HandshakePcs
                /\ b.result \notin { "err", "timeout" } )
              => /\ b.sent = IF GreetingAccepted(a)
                             THEN << << 5, 0 >> >>
                             ELSE << << 5, 255 >> >>
                 /\ GreetingAccepted(a) <=> b.pc = "rq_fixed"
                 /\ ~GreetingAccepted(a) =>
                        /\ b.pc = "fin_dec"
                        /\ b.result = "false"
                        /\ b.connects = << >>
                        /\ b.request = None ]_vars

\* A greeting has been refused with 05 FF and the session is about to be
\* deregistered.
C2_Witness ==
    \E w \in Workers :
        /\ worker[w].pc = "fin_dec"
        /\ worker[w].result = "false"
        /\ worker[w].sent = << << 5, 255 >> >>

\* C3: every failure reply is the 10 bytes 05 CC 00 01 00 00 00 00 00 00 with
\* CC the non-zero reply code: for every code, and for every session that
\* ended on a failure reply (the second write of the session).
C3_FailureReplyFrame ==
    /\ \A r \in Replies :
           /\ as_u8(r) \in 1 .. 255
           /\ write_error(r) = << 5, as_u8(r), 0, 1, 0, 0, 0, 0, 0, 0 >>
    /\ \A w \in Workers :
           (worker[w].result = "false" /\ Len(worker[w].sent) >= 2)
           => /\ Len(worker[w].sent) = 2
              /\ \E cc \in 1 .. 255 :
                     worker[w].sent[2] = << 5, cc, 0, 1, 0, 0, 0, 0, 0, 0 >>

\* A session has ended on the TtlExpired reply.
C3_Witness ==
    \E w \in Workers :
        /\ worker[w].result = "false"
        /\ Len(worker[w].sent) = 2
        /\ worker[w].sent[2][2] = 5

\* C4: once the success reply is written it is 05 00 00 ATYP BND.ADDR
\* BND.PORT, with ATYP 1 or 4 by the family of the outbound socket's local
\* end, its octets and its port in network order.
C4_SuccessReplyFrame ==
    \A w \in Workers :
        worker[w].pc = "relay" =>
            LET local_end == worker[w].conn[1]
                sent == worker[w].sent
            IN  /\ Len(sent) = 4
                /\ sent[2] = << 5, 0, 0, IF Len(local_end.ip) = 4 THEN 1 ELSE 4 >>
                /\ sent[3] = local_end.ip
                /\ Len(sent[3]) \in { 4, 16 }
                /\ sent[4] = << local_end.port \div 256, local_end.port % 256 >>

\* No start_request or finish_request call is between its update of
\* in_flight and its update of the map.
Quiescent == \A w \in Workers : worker[w].pc \notin { "start_alloc", "start_insert", "fin_remove" }

Size(map) == Cardinality(DOMAIN map)

\* C5: at every quiescent moment in_flight equals the number of entries of
\* the sessions map.
C5_InFlightIsMapSize == Quiescent => in_flight = Size(sessions)

\* A session has finished while another one is live, and no call is partly
\* executed.
C5_Witness ==
    /\ Quiescent
    /\ in_flight = 1
    /\ \E w \in Workers : worker[w].pc = "done"
    /\ \E w \in Workers : worker[w].pc = "hs_init"

\* C6 as stated: every snapshot reports as many sessions as its in_flight.
C6_SnapshotAlwaysConsistent ==
    IsSome(snap.out) => snap.out[1].in_flight = Size(snap.out[1].sessions)

\* C6, amended: a snapshot that is serialized at a quiescent moment (no call
\* was partly executed while it held the read lease) reports as many
\* sessions as its in_flight.
C6_SnapshotConsistentWhenQuiescent ==
    [][ (snap.pc = "load" /\ snap'.pc = "idle" /\ Quiescent)
        => snap'.out[1].in_flight = Size(snap'.out[1].sessions) ]_vars

\* A snapshot taken with one live session reports it and in_flight 1.
C6_Witness ==
    /\ IsSome(snap.out)
    /\ snap.out[1].in_flight = 1
    /\ Size(snap.out[1].sessions) = 1
    /\ Quiescent

\* C7: the ids start_request returns start at 1 and are strictly increasing
\* in the order they are allocated (so pairwise distinct); the ids held by
\* wrappers, finished or not, are pairwise distinct, and every key of the
\* map was issued.
C7_IdsIncrease ==
    /\ Len(issued) >= 1 => issued[1] = 1
    /\ \A i, j \in 1 .. Len(issued) : i < j => issued[i] < issued[j]
    /\ \A v, w \in Workers :
           (v # w /\ worker[v].conn_id # 0 /\ worker[w].conn_id # 0)
           => worker[v].conn_id # worker[w].conn_id
    /\ \A id \in DOMAIN sessions : \E i \in 1 .. Len(issued) : issued[i] = id

\* Two ids were issued and the session of the first has finished.
C7_Witness ==
    /\ Len(issued) >= 2
    /\ \E w \in Workers : worker[w].pc = "done" /\ worker[w].conn_id = issued[1]

\* C8 as stated: no step lowers a counter, in_flight included.
C8_NoCounterDecreases ==
    [][ /\ \A c \in CounterNames : ~U64Less(counters'[c], counters[c])
        /\ ~U64Less(in_flight', in_flight) ]_vars

\* C8, amended: no step lowers handshake_failed, handshake_success,
\* handshake_authenticated, handshake_timeout, session_success or
\* session_timeout.
C8_BumpCountersOnlyIncrease ==
    [][ \A c \in CounterNames : ~U64Less(counters'[c], counters[c]) ]_vars

\* Counters have been bumped, one of them twice, and a finish_request has
\* lowered in_flight.
C8_Witness ==
    /\ \E c \in CounterNames : counters[c] = 2
    /\ \E w \in Workers : worker[w].pc = "fin_remove"

\* The wrapper of connection w has ended.
Ended(w) == worker[w].pc \in { "done", "panicked" }

\* C9: a worker that is inside handle_one_connection has its session in the
\* map, and once every spawned wrapper has ended the map is empty and
\* in_flight is 0.
C9_RegisteredWhileRunning ==
    /\ \A w \in Workers :
           (worker[w].pc \in HandlerPcs \cup { "connect", "cn_loop" })
           => worker[w].conn_id \in DOMAIN sessions
    /\ (\A w \in Workers : worker[w].pc = "idle" \/ Ended(w))
       => (DOMAIN sessions = {} /\ in_flight = 0)

\* The step of read_request that answers a frame it refuses.
Refusal(a, b) ==
    /\ a.pc = "rq_atyp"
    /\ b.result = "false"

\* C10 as stated: a frame whose CMD is not 1 is answered with
\* CommandNotSupported, a frame whose version is not 5 with SocksFailure.
C10_RefusalByCmdAndVersion ==
    [][ \A w \in Workers :
          LET a == worker[w]
              b == worker'[w]
          IN  Refusal(a, b) =>
                  /\ a.fixed_buf[2] # 1 =>
                         b.sent = Append(a.sent, << 5, 7, 0, 1, 0, 0, 0, 0, 0, 0 >>)
                  /\ a.fixed_buf[1] # 5 =>
                         b.sent = Append(a.sent, << 5, 1, 0, 1, 0, 0, 0, 0, 0, 0 >>) ]_vars

\* C10, amended: a frame whose version is not 5 is answered with exactly one
\* SocksFailure reply whatever its CMD, a frame of version 5 whose CMD is not
\* 1 with exactly one CommandNotSupported reply; either way the session ends
\* there: no address is read, no policy evaluated, no name resolved, no
\* connect attempted.
C10_RefusalVersionFirst ==
    [][ \A w \in Workers :
          LET a == worker[w]
              b == worker'[w]
              bad == a.fixed_buf[1] # 5 \/ a.fixed_buf[2] # 1
              code == IF a.fixed_buf[1] # 5 THEN 1 ELSE 7
          IN  /\ Refusal(a, b) =>
                     /\ bad
                     /\ b.sent = << << 5, 0 >>, << 5, code, 0, 1, 0, 0, 0, 0, 0, 0 >> >>
                     /\ b.pc = "fin_dec"
                     /\ b.connects = << >>
                     /\ b.request = None
              /\ (a.pc = "rq_atyp" /\ bad /\ b # a) =>
                     /\ b.pc = "fin_dec"
                     /\ b.result \in { "false", "err", "timeout" }
                     /\ b.connects = << >> ]_vars

\* A BIND request of version 5 has been answered with CommandNotSupported.
C10_Witness ==
    \E w \in Workers :
        /\ worker[w].pc = "fin_dec"
        /\ worker[w].result = "false"
        /\ Len(worker[w].sent) = 2
        /\ worker[w].sent[2][2] = 7

\* C11: a failure of the connect phase is answered by cause: a policy
\* denial with ConnectionNotAllowed (2), an error of the resolver or of the
\* connect with NetworkUnreachable (3), the 3000 ms deadline with TtlExpired
\* (5); that reply is the only thing written after the greeting reply, no
\* relay starts and handle_one_connection returns.
C11_ConnectFailureReply ==
    [][ \A w \in Workers :
          LET a == worker[w]
              b == worker'[w]
              code == CASE a.outcome = "none" -> 2
                        [] a.outcome = "err" -> 3
                        [] a.outcome = "elapsed" -> 5
              denied == IF a.request[1].address.tag = "ip"
                        THEN /\ a.pc = "connect"
                             /\ << a.request[1].address.v, a.request[1].dport >> \notin config
                        ELSE /\ a.pc = "cn_loop"
                             /\ \A i \in 1 .. Len(a.addrs[1]) :
                                    << a.addrs[1][i], a.request[1].dport >> \notin config
          IN  /\ (a.pc \in { "connect", "cn_loop", "cn_wait" } /\ b.pc = "reply_err") =>
                     /\ b.sent = a.sent
                     /\ b.outcome = "none" <=> denied
                     /\ b.outcome = "err" =>
                            a.pc = "cn_wait" \/ (a.pc = "connect" /\ a.request[1].address.tag = "domain")
                     /\ b.outcome = "elapsed" =>
                            a.pc = "cn_wait" \/ (a.pc = "connect" /\ a.request[1].address.tag = "domain")
                     /\ b.outcome \in { "none", "err", "elapsed" }
              /\ (a.pc \in { "connect", "cn_loop" } /\ denied /\ b # a) =>
                     b.pc = "reply_err"
              /\ (a.pc = "reply_err" /\ b # a) =>
                     /\ b.pc = "fin_dec"
                     /\ b.connects = a.connects
                     /\ b.result \in { "false", "err", "timeout" }
                     /\ b.result = "false" =>
                            b.sent = << << 5, 0 >>, << 5, code, 0, 1, 0, 0, 0, 0, 0, 0 >> >>
                     /\ b.result # "false" => b.sent = a.sent ]_vars

\* The connect deadline has passed on a connect under way and the TtlExpired
\* reply has been written.
C11_Witness ==
    \E w \in Workers :
        /\ worker[w].pc = "fin_dec"
        /\ worker[w].result = "false"
        /\ Len(worker[w].connects) = 1
        /\ worker[w].sent = << << 5, 0 >>, << 5, 5, 0, 1, 0, 0, 0, 0, 0, 0 >> >>

\* C12: for a domain request whose name resolved to the list L, one connect
\* is attempted, to the first address of L the policy permits with the
\* request's port, and no other; when that connect fails no further address
\* is tried and the reply is NetworkUnreachable (TtlExpired when the connect
\* deadline passed); when L is empty or holds no permitted address no
\* connect is attempted and the reply is ConnectionNotAllowed.
C12_FirstPermittedOnly ==
    \A w \in Workers :
        LET a == worker[w]
            L == a.addrs[1]
            dport == a.request[1].dport
            P == { i \in 1 .. Len(L) : << L[i], dport >> \in config }
            first == CHOOSE i \in P : \A j \in P : i <= j
        IN  /\ Len(a.connects) <= 1
            /\ IsSome(a.addrs) =>
                   /\ a.request[1].address.tag = "domain"
                   /\ a.pc \in { "cn_loop", "cn_wait", "reply_err" }
                   /\ a.pc = "cn_loop" => a.connects = << >>
                   /\ (a.pc # "cn_loop" /\ P = {}) =>
                          /\ a.connects = << >>
                          /\ a.pc = "reply_err"
                          /\ a.reply = Some("ConnectionNotAllowed")
                   /\ (a.pc # "cn_loop" /\ P # {}) =>
                          /\ a.connects = << [ip |-> L[first], port |-> dport] >>
                          /\ a.pc = "cn_wait" => a.target = Some(a.connects[1])
                          /\ a.pc = "reply_err" =>
                                 \/ a.outcome = "err" /\ a.reply = Some("NetworkUnreachable")
                                 \/ a.outcome = "elapsed" /\ a.reply = Some("TtlExpired")

\* The name resolved to two addresses, the policy denies the first and
\* permits the second, the connect to the second failed and nothing else was
\* tried.
C12_Witness ==
    \E w \in Workers :
        LET a == worker[w]
        IN  /\ a.pc = "reply_err"
            /\ IsSome(a.addrs)
            /\ Len(a.addrs[1]) = 2
            /\ << a.addrs[1][1], a.request[1].dport >> \notin config
            /\ << a.addrs[1][2], a.request[1].dport >> \in config
            /\ a.addrs[1][1] # a.addrs[1][2]
            /\ Len(a.connects) = 1
            /\ a.outcome = "err"

\* C13: the two directions of the relay end independently: a direction
\* ends only from copying and leaves the other as it is; one that ends on
\* EOF shuts down the write side of its own destination and of nothing
\* else, one that ends on an error shuts down nothing; after one direction
\* has ended, with EOF or with an error, the other goes on copying; and
\* handle_one_connection returns from the relay only when both have ended.
C13_RelayDirectionsIndependent ==
    [][ \A w \in Workers :
          LET a == worker[w]
              b == worker'[w]
          IN  (a.pc = "relay" /\ b # a) =>
                  /\ (b.pc = "relay" /\ b.up # a.up) =>
                         /\ a.up = "copy"
                         /\ b.down = a.down
                         /\ b.up \in { "ok", "err" }
                         /\ b.up = "ok" => b.shutdown = a.shutdown \cup { "conn" }
                         /\ b.up = "err" => b.shutdown = a.shutdown
                  /\ (b.pc = "relay" /\ b.down # a.down) =>
                         /\ a.down = "copy"
                         /\ b.up = a.up
                         /\ b.down \in { "ok", "err" }
                         /\ b.down = "ok" => b.shutdown = a.shutdown \cup { "socket" }
                         /\ b.down = "err" => b.shutdown = a.shutdown
                  /\ b.pc = "relay" => (b.up # a.up \/ b.down # a.down)
                  /\ (b.pc # "relay" /\ b.result # "timeout") =>
                         /\ a.up # "copy"
                         /\ a.down # "copy"
                         /\ b.pc = "fin_dec"
                         /\ b.result = "true" <=> (a.up = "ok" /\ a.down = "ok") ]_vars

\* The client-to-target direction has ended with an error while the
\* target-to-client direction is still copying.
C13_Witness ==
    \E w \in Workers :
        /\ worker[w].pc = "relay"
        /\ worker[w].up = "err"
        /\ worker[w].down = "copy"

\* C14: main never leaves its accept loop: neither an error returned by
\* accept nor anything a session worker does ends it, so that later
\* connections are still accepted.
C14_AcceptLoopNeverLeft ==
    [][main = "accepting" => main' = "accepting"]_vars

\* C15: the greeting outcomes are counted: handshake_success is the number
\* of sessions whose greeting was answered 05 00, handshake_failed the
\* number of those answered 05 FF, so that their sum is the number of
\* sessions that got past the greeting.
C15_GreetingCounted ==
    /\ counters.handshake_success =
           Cardinality({ w \in Workers : /\ Len(worker[w].sent) >= 1
                                         /\ worker[w].sent[1] = << 5, 0 >> })
    /\ counters.handshake_failed =
           Cardinality({ w \in Workers : /\ Len(worker[w].sent) >= 1
                                         /\ worker[w].sent[1] = << 5, 255 >> })

\* C16: the end of a session is counted once: when every wrapper that was
\* spawned has ended, session_success is the number of sessions whose relay
\* ended with both directions at EOF, session_timeout the number of those
\* the session deadline dropped.
C16_SessionEndCounted ==
    (\A w \in Workers : worker[w].pc \in { "idle", "done", "panicked" }) =>
        /\ counters.session_success =
               Cardinality({ w \in Workers : worker[w].result = "true" })
        /\ counters.session_timeout =
               Cardinality({ w \in Workers : worker[w].result = "timeout" })

\* C17: from the connect phase on and until the wrapper deregisters the
\* session, the session's entry in the map holds the request the worker
\* parsed.
C17_RequestRecorded ==
    \A w \in Workers :
        (/\ IsSome(worker[w].request)
         /\ worker[w].pc \in { "connect", "cn_loop", "cn_wait", "reply_err",
                               "rp_head", "rp_addr", "rp_port", "relay" })
        => /\ worker[w].conn_id \in DOMAIN sessions
           /\ sessions[worker[w].conn_id].request = worker[w].request

\* C18: a direction of the relay that has ended with an I/O error has shut
\* down the write side of its destination, as one that ended on EOF has.
C18_ErrorShutsDownDestination ==
    \A w \in Workers :
        worker[w].pc = "relay" =>
            /\ worker[w].up = "err" => "conn" \in worker[w].shutdown
            /\ worker[w].down = "err" => "socket" \in worker[w].shutdown

\* C19: a finish_request whose id is not in the map changes nothing: not the
\* map, not a counter, not in_flight, which therefore never goes below zero.
C19_FinishAbsentIsNoOp ==
    [][ \A w \in Workers :
          ( /\ worker[w].pc \in { "fin_dec", "fin_remove" }
            /\ worker'[w] # worker[w]
            /\ worker[w].conn_id \notin DOMAIN sessions )
          => /\ sessions' = sessions
             /\ counters' = counters
             /\ in_flight' = in_flight
             /\ in_flight' >= 0 ]_vars

\* The bytes of a write are a failure reply: 05, a code that is not 0, ...
IsFailureReply(chunk) == Len(chunk) = 10 /\ chunk[1] = 5 /\ chunk[2] # 0

\* C20: the writes of a session to its client are, in this order, the
\* greeting reply and at most one reply to the request; the request is read
\* only after the greeting reply 05 00 was written; the success reply is
\* written only once the outbound connection is established, and whole
\* before the relay starts; a session that wrote a failure reply, or no
\* reply, has ended without a relay.
C20_ReplyOrder ==
    \A w \in Workers :
        LET a == worker[w]
            n == Len(a.sent)
        IN  /\ n <= 4
            /\ n >= 1 => Len(a.sent[1]) = 2
            /\ a.pc \in { "idle", "start_inc", "start_alloc", "start_insert" }
                   \cup HandshakePcs => n = 0
            /\ a.pc \in { "rq_fixed", "rq_atyp", "rq_name", "rq_port", "connect",
                          "cn_loop", "cn_wait", "reply_err", "rp_head" }
                   => a.sent = << << 5, 0 >> >>
            /\ a.pc \in { "rp_head", "rp_addr", "rp_port", "relay" } =>
                   /\ IsSome(a.conn)
                   /\ Len(a.connects) = 1
            /\ a.pc = "rp_addr" => n = 2
            /\ a.pc = "rp_port" => n = 3
            /\ a.pc = "relay" <=> (a.up # "none" /\ a.down # "none")
            /\ a.pc = "relay" => n = 4
            /\ n >= 2 =>
                   /\ a.sent[1] = << 5, 0 >>
                   /\ IF IsFailureReply(a.sent[2])
                      THEN /\ n = 2
                           /\ a.pc \in { "fin_dec", "fin_remove", "done" }
                           /\ a.result = "false"
                      ELSE /\ Len(a.sent[2]) = 4
                           /\ a.sent[2][2] = 0
                           /\ Len(a.connects) = 1
            /\ (a.result = "true" \/ a.shutdown # {}) => n = 4

\* The success reply has been written in full and the relay has started.
C20_Witness ==
    \E w \in Workers :
        /\ worker[w].pc = "relay"
        /\ Len(worker[w].sent) = 4
        /\ worker[w].up = "copy"
        /\ worker[w].down = "copy"

====
